---------------------------- MODULE Spec2Model ----------------------------
(***************************************************************************)
(* A model of fzconf.py, the makefile generator: the header dependency     *)
(* search (Project._find_deps_cpp), the compiler flag probe (try_compile,  *)
(* cxxflags_check), the construction of a Project's rules and the          *)
(* Makefile's import of projects.                                          *)
(*                                                                         *)
(* Strings are TLA+ strings; \o is Python's + on str.  Python lists are    *)
(* sequences, sets are sets, dicts are functions whose DOMAIN is the set   *)
(* of keys.  A command (a token list, a tuple or a shell line) is the      *)
(* sequence of its tokens; a shell line is one token.                      *)
(***************************************************************************)
EXTENDS Integers, Sequences, FiniteSets, TLC

VARIABLES
    files,      \* the file system: readable path -> its lines
    dpc,        \* _find_deps_cpp: "idle", "loop" (in the while) or "done"
    root,       \* _find_deps_cpp: the `filename` argument
    queue,      \* _find_deps_cpp: the local `queue`
    deps,       \* _find_deps_cpp: the local `deps`
    toolchain,  \* the machine: compiler name -> how it answers a probe
    cache,      \* the module global _cxxflag_cache
    tmpfile,    \* whether the file "~~" exists
    last,       \* history: the last call of cxxflags_check or try_compile
    extlist,    \* a list object the caller passes as extdeps=
    cur,        \* the last Project(...) call: its arguments and its outcome
    projs,      \* the Project objects the caller holds
    mk,         \* the Makefile object
    firstSeen   \* history: first project of the earliest non-empty import

vars == <<files, dpc, root, queue, deps, toolchain, cache, tmpfile, last,
          extlist, cur, projs, mk, firstSeen>>

depVars == <<dpc, root, queue, deps>>
flagVars == <<toolchain, cache, tmpfile, last>>
projVars == <<extlist, cur, projs, mk, firstSeen>>

-----------------------------------------------------------------------------
(* Generic helpers. *)

Range(s) == {s[i] : i \in 1..Len(s)}

RECURSIVE SeqsUpTo(_, _)
\* All sequences over S of length at most n.
SeqsUpTo(S, n) ==
    IF n = 0 THEN {<<>>}
    ELSE LET shorter == SeqsUpTo(S, n - 1)
         IN  shorter \cup {Append(s, x) : s \in shorter, x \in S}

-----------------------------------------------------------------------------
(* Project._find_deps_cpp *)

\* A line of a file: a local include (`#include "name"`), a system include
\* (`#include <name>`) or anything else.
Line(kind, name) == [kind |-> kind, name |-> name]

\* A regex that takes <name> for "name".
RegexMatchesAnyInclude(line) == line.kind \in {"local", "system"}

\* re.match(regex, line): the regex asks for a double-quoted file name.
RegexMatches(line) == line.kind = "local"

\* os.path.relpath(os.path.join(workdir, m.group(1))), for an including file
\* in the current directory (workdir is the current directory): the name
\* with a leading "./" dropped.
NormTable ==
    [n \in {"a.c", "b.h", "c.h", "./c.h", "h.h", "missing.h", "stdio.h", "iostream"} |->
        IF n = "./c.h" THEN "c.h" ELSE n]

RelPath(path, name) == NormTable[name]

RECURSIVE ScanLines(_, _, _, _)
\* The `for line in f` loop: q and d are `queue` and `deps`.
ScanLines(path, lines, q, d) ==
    IF lines = <<>> THEN [queue |-> q, deps |-> d]
    ELSE LET line == Head(lines)
             p    == RelPath(path, line.name)
         IN  IF RegexMatches(line) /\ p \notin d
             THEN ScanLines(path, Tail(lines), Append(q, p), d \cup {p})
             ELSE ScanLines(path, Tail(lines), q, d)

\* One turn of `while queue`: pop the last path, open it and scan it; a
\* path that cannot be opened (IOError) is skipped with a warning.
ScanFile(q, d) ==
    LET path == q[Len(q)]
        rest == SubSeq(q, 1, Len(q) - 1)
    IN  IF path \in DOMAIN files
        THEN ScanLines(path, files[path], rest, d)
        ELSE [queue |-> rest, deps |-> d]

RECURSIVE DepsLoop(_, _)
DepsLoop(q, d) ==
    IF q = <<>> THEN d
    ELSE LET r == ScanFile(q, d) IN DepsLoop(r.queue, r.deps)

\* The whole call, as the project construction uses it.
FindDepsCpp(filename) == DepsLoop(<<filename>>, {filename})

\* The same call, one loop turn at a time.
FindDepsCall(filename) ==
    /\ dpc = "idle"
    /\ dpc' = "loop"
    /\ root' = filename
    /\ queue' = <<filename>>
    /\ deps' = {filename}
    /\ UNCHANGED <<files, flagVars, projVars>>

FindDepsIter ==
    /\ dpc = "loop"
    /\ queue # <<>>
    /\ LET r == ScanFile(queue, deps)
       IN  /\ queue' = r.queue
           /\ deps' = r.deps
    /\ UNCHANGED <<files, dpc, root, flagVars, projVars>>

FindDepsReturn ==
    /\ dpc = "loop"
    /\ queue = <<>>
    /\ dpc' = "done"
    /\ UNCHANGED <<files, root, queue, deps, flagVars, projVars>>

-----------------------------------------------------------------------------
(* try_compile and cxxflags_check *)

\* str.startswith: s is prefix followed by some tail.
Tails == {"", "5", "c++11", "c++0x", "gnu99"}

StartsWith(s, prefix) == \E t \in Tails : s = prefix \o t

\* dict[key] = value
DictSet(d, key, value) ==
    [k \in DOMAIN d \cup {key} |-> IF k = key THEN value ELSE d[k]]

EmptyDict == [k \in {} |-> ""]

\* How the machine answers `compiler flag -x c++ -o ~~ -c -`:
\*   "missing"  no such binary: Popen raises OSError;
\*   "broken"   the process starts and communicate() raises OSError;
\*   otherwise the process runs and exits with 0 exactly for the flags the
\*   compiler knows, writing "~~" exactly then.
Kinds == {"missing", "broken", "old", "mid", "new", "odd"}

Accepts(kind, flag) ==
    CASE flag = "-std=c++11" -> kind \in {"new", "odd"}
      [] flag = "-std=c++0x" -> kind \in {"new", "mid"}
      [] OTHER               -> kind \in {"old", "mid", "new", "odd"}

\* try_compile([compiler, flag], "c++"), entered with "~~" existing or not
\* (tmp).  wrote: whether a process whose communicate() fails had written
\* "~~" by then.  The result and whether "~~" exists at the return.
TryCompile(compiler, flag, tmp, wrote) ==
    LET kind == toolchain[compiler]
    IN  CASE kind = "missing" ->
               \* Popen raises OSError: except OSError, return False
               [ok |-> FALSE, tmp |-> tmp]
          [] kind = "broken" ->
               \* communicate raises OSError: os.remove is skipped
               [ok |-> FALSE, tmp |-> tmp \/ wrote]
          [] OTHER ->
               \* os.remove(tmpfile) removes "~~", or raises OSError when
               \* the compiler wrote none: return False
               IF Accepts(kind, flag) THEN [ok |-> TRUE, tmp |-> FALSE]
               ELSE [ok |-> FALSE, tmp |-> FALSE]

\* The branch of cxxflags_check for "-std=c++11" (lines 51-60): st holds
\* the loop's `flag`, the compiler's `cache`, "~~" and the probes made.
ProbeCxx11(compiler, old_flag, st, wrote) ==
    IF st.flag # "-std=c++11" THEN st
    ELSE LET t1 == TryCompile(compiler, "-std=c++11", st.tmp, wrote)
         IN  IF t1.ok
             THEN [st EXCEPT !.tmp = t1.tmp, !.probes = @ + 1]
             ELSE LET t2 == TryCompile(compiler, "-std=c++0x", t1.tmp, wrote)
                  IN  IF t2.ok
                      THEN [flag   |-> "-std=c++0x",
                            cache  |-> DictSet(st.cache, old_flag, "-std=c++0x"),
                            tmp    |-> t2.tmp,
                            probes |-> st.probes + 2]
                      ELSE [flag   |-> "",
                            cache  |-> DictSet(DictSet(st.cache, "-std=c++0x", ""),
                                               old_flag, ""),
                            tmp    |-> t2.tmp,
                            probes |-> st.probes + 2]

\* The if/elif with the compiler's name not looked at.
ProbeCxx0xOrLimitAnyCompiler(compiler, old_flag, st, wrote) ==
    IF st.flag = "-std=c++0x"
    THEN LET t == TryCompile(compiler, "-std=c++0x", st.tmp, wrote)
         IN  IF t.ok
             THEN [st EXCEPT !.tmp = t.tmp, !.probes = @ + 1]
             ELSE [flag   |-> "",
                   cache  |-> DictSet(st.cache, old_flag, ""),
                   tmp    |-> t.tmp,
                   probes |-> st.probes + 1]
    ELSE IF StartsWith(st.flag, "-ferror-limit=")
    THEN [st EXCEPT !.flag = "", !.cache = DictSet(st.cache, old_flag, "")]
    ELSE st

\* The if/elif for "-std=c++0x" and "-ferror-limit=" (lines 62-71).
ProbeCxx0xOrLimit(compiler, old_flag, st, wrote) ==
    IF st.flag = "-std=c++0x"
    THEN LET t == TryCompile(compiler, "-std=c++0x", st.tmp, wrote)
         IN  IF t.ok
             THEN [st EXCEPT !.tmp = t.tmp, !.probes = @ + 1]
             ELSE [flag   |-> "",
                   cache  |-> DictSet(st.cache, old_flag, ""),
                   tmp    |-> t.tmp,
                   probes |-> st.probes + 1]
    ELSE IF StartsWith(st.flag, "-ferror-limit=") /\ compiler # "clang++"
    THEN [st EXCEPT !.flag = "", !.cache = DictSet(st.cache, old_flag, "")]
    ELSE st

\* One turn of `for flag in flags`: acc holds new_flags, the compiler's
\* cache, "~~" and the number of try_compile calls so far.
CheckFlag(compiler, flag, acc, wrote) ==
    IF flag \in DOMAIN acc.cache
    THEN \* the cached resolution; an empty one is dropped
         [acc EXCEPT !.new_flags =
             IF acc.cache[flag] # "" THEN Append(@, acc.cache[flag]) ELSE @]
    ELSE LET st0 == [flag |-> flag, cache |-> acc.cache,
                     tmp |-> acc.tmp, probes |-> acc.probes]
             st1 == ProbeCxx11(compiler, flag, st0, wrote)
             st2 == ProbeCxx0xOrLimit(compiler, flag, st1, wrote)
         IN  [new_flags |-> IF st2.flag # "" THEN Append(acc.new_flags, st2.flag)
                            ELSE acc.new_flags,
              cache     |-> st2.cache,
              tmp       |-> st2.tmp,
              probes    |-> st2.probes]

RECURSIVE CheckFlags(_, _, _, _)
CheckFlags(compiler, flags, acc, wrote) ==
    IF flags = <<>> THEN acc
    ELSE CheckFlags(compiler, Tail(flags),
                    CheckFlag(compiler, Head(flags), acc, wrote), wrote)

Compilers == {"clang++", "g++"}

FlagNames == {"-std=c++11", "-std=c++0x", "-ferror-limit=5", "-O2", ""}

MaxFlags == 2

FlagLists == SeqsUpTo(FlagNames, MaxFlags)

NoCall ==
    [op |-> "", compiler |-> "", flags |-> <<>>, result |-> <<>>, ok |-> FALSE,
     probes |-> 0, repeated |-> FALSE, before |-> <<>>, left |-> FALSE]

\* Whether the process of a failing communicate() had written "~~": either,
\* on a machine where communicate() fails.
Wrote(compiler) == IF toolchain[compiler] = "broken" THEN BOOLEAN ELSE {FALSE}

\* cxxflags_check(compiler, flags).  `last` records the call, its result, the
\* number of try_compile calls it made, whether it repeats the call made
\* just before it and, if so, that call's result.
CxxflagsCheck(compiler, flags) ==
    \E wrote \in Wrote(compiler) :
        LET known == IF compiler \in DOMAIN cache THEN cache[compiler]
                     ELSE EmptyDict
            r == CheckFlags(compiler, flags,
                            [new_flags |-> <<>>, cache |-> known,
                             tmp |-> tmpfile, probes |-> 0], wrote)
            again == /\ last.op = "cxxflags_check"
                     /\ last.compiler = compiler
                     /\ last.flags = flags
        IN  /\ cache' = DictSet(cache, compiler, r.cache)
            /\ tmpfile' = r.tmp
            /\ last' = [op |-> "cxxflags_check", compiler |-> compiler,
                        flags |-> flags, result |-> r.new_flags, ok |-> TRUE,
                        probes |-> r.probes, repeated |-> again,
                        before |-> IF again THEN last.result ELSE <<>>,
                        left |-> r.tmp]
            /\ UNCHANGED <<files, depVars, toolchain, projVars>>

\* try_compile([compiler, flag], "c++") called by the caller itself.  `last`
\* records the call, its result (ok) and whether "~~" exists when it returns.
TryCompileCall(compiler, flag) ==
    \E wrote \in Wrote(compiler) :
        LET t == TryCompile(compiler, flag, tmpfile, wrote)
        IN  /\ tmpfile' = t.tmp
            /\ last' = [op |-> "try_compile", compiler |-> compiler,
                        flags |-> <<flag>>, result |-> <<>>, ok |-> t.ok,
                        probes |-> 1, repeated |-> FALSE, before |-> <<>>,
                        left |-> t.tmp]
            /\ UNCHANGED <<files, depVars, toolchain, cache, projVars>>

\* The history `last` is dropped: the next call is not compared with it.
ForgetCall ==
    /\ last.op # ""
    /\ last' = NoCall
    /\ UNCHANGED <<files, depVars, toolchain, cache, tmpfile, projVars>>

-----------------------------------------------------------------------------
(* Project.__init__ *)

\* dict.get(key, default)
Get(d, key, default) == IF key \in DOMAIN d THEN d[key] ELSE default

\* os.path.splitext(inp)[1]: inp is a stem without a dot, then the extension.
Stems == {"a", "b", "main", "x", "h", "<stdio"}

Exts == {"", ".c", ".cc", ".cpp", ".cxx", ".c++", ".txt", ".h", ".h>"}

Splitext(inp) == CHOOSE e \in Exts : \E s \in Stems : inp = s \o e

\* inp.startswith("<") and inp.endswith(">")
IsBracketed(inp) == \E s \in {"stdio.h", "vector"} : inp = "<" \o s \o ">"

\* Python's order on the str values that are sorted: a path comes before
\* another exactly when it stands before it in this list.
LexOrder ==
    <<"$(INTDIR)a.c.o", "$(INTDIR)b.cpp.o", "$(INTDIR)main.cpp.o",
      "a.c.o", "b.cpp.o", "main.cpp.o">>

StrLess(a, b) ==
    \E i, j \in 1..Len(LexOrder) : i < j /\ LexOrder[i] = a /\ LexOrder[j] = b

RECURSIVE Sorted(_)
\* sorted(list(S))
Sorted(S) ==
    IF S = {} THEN <<>>
    ELSE LET m == CHOOSE x \in S : \A y \in S : ~StrLess(y, x)
         IN  <<m>> \o Sorted(S \ {m})

\* [f for f in compiler if not f.startswith("-std=")]
NotStd(f) == ~StartsWith(f, "-std=")

StripStd(compiler) == SelectSeq(compiler, NotStd)

Rule(prereqs, commands) == [deps |-> prereqs, cmds |-> commands]

\* ("mkdir", "-p", "`dirname $@`"); the model writes the back-quoted token
\* without its back quotes.
MkdirCommand == <<"mkdir", "-p", "dirname $@">>

\* raise Exception(message): the object under construction with the message
Raise(self, message) == [self EXCEPT !.error = message]

\* Lines 137-162: the attributes.  `shared` is the content of the caller's
\* list when extdeps= passes it; self.extdeps is that same list object, so
\* the append of line 162 is an append to the caller's list too.
ProjectFields(name, inputs, arguments, shared) ==
    LET precompiled == Get(arguments, "precompiled", "")
        cppflags    == Get(arguments, "cppflags", <<>>)
        extdeps     == IF "extdeps" \in DOMAIN arguments THEN shared ELSE <<>>
        cc   == <<"$(CC)", "$(CPPFLAGS)">> \o cppflags \o <<"$(CFLAGS)">>
                    \o Get(arguments, "cflags", <<>>)
        cxx  == <<"$(CXX)", "$(CPPFLAGS)">> \o cppflags \o <<"$(CXXFLAGS)">>
                    \o Get(arguments, "cxxflags", <<>>)
    IN  [name        |-> name,
         inputs      |-> inputs,
         outdir      |-> Get(arguments, "outdir", "$(OUTDIR)"),
         outname     |-> Get(arguments, "outname", name),
         intdir      |-> Get(arguments, "intdir", "$(INTDIR)"),
         lang        |-> Get(arguments, "lang", ""),
         postbuild   |-> Get(arguments, "postbuild", <<>>),
         postexec    |-> Get(arguments, "postexec", <<>>),
         extdeps     |-> IF precompiled # ""
                         THEN Append(extdeps, "$(INTDIR)" \o precompiled \o "$(PCHEXT)")
                         ELSE extdeps,
         rules       |-> EmptyDict,
         outs        |-> Get(arguments, "outs", {}),
         phonys      |-> {},
         precompiled |-> precompiled,
         linkflags   |-> Get(arguments, "linkflags", <<>>),
         cppflags    |-> cppflags,
         cc          |-> cc,
         cxx         |-> IF precompiled # ""
                         THEN cxx \o <<"-include", "$(INTDIR)" \o precompiled>>
                         ELSE cxx,
         ints        |-> {},
         out         |-> "",
         error       |-> ""]

\* _proc_intermediate(compiler, inp)
ProcIntermediate(self, compiler, inp) ==
    LET intfn == self.intdir \o inp \o ".o"
    IN  IF intfn \notin DOMAIN self.rules
        THEN [self EXCEPT
                !.rules = DictSet(@, intfn,
                    Rule(FindDepsCpp(inp) \cup Range(self.extdeps),
                         << MkdirCommand,
                            compiler \o <<"-o", "$@", "-c", inp>> >>)),
                !.ints = @ \cup {intfn}]
        ELSE self

\* _proc_linkage with the "-std=" flag left in the link command.
ProcLinkageKeepStd(self, compiler, out) ==
    [self EXCEPT
        !.rules = DictSet(@, out,
            Rule(self.ints \cup Range(self.extdeps),
                 << MkdirCommand,
                    compiler \o <<"-o", "$@">> \o Sorted(self.ints)
                        \o self.linkflags >>)),
        !.outs = @ \cup {out} \cup self.ints]

\* _proc_linkage(compiler, out)
ProcLinkage(self, compiler, out) ==
    [self EXCEPT
        !.rules = DictSet(@, out,
            Rule(self.ints \cup Range(self.extdeps),
                 << MkdirCommand,
                    StripStd(compiler) \o <<"-o", "$@">> \o Sorted(self.ints)
                        \o self.linkflags >>)),
        !.outs = @ \cup {out} \cup self.ints]

\* The loop turn with a C++ source in a project tagged c taken for a conflict.
CompileInputNoUpgrade(self, inp) ==
    LET ext == Splitext(inp)
    IN  IF ext \in {".cc", ".cpp", ".cxx", ".c++"}
        THEN IF self.lang = ""
             THEN ProcIntermediate([self EXCEPT !.lang = "c++"], self.cxx, inp)
             ELSE IF self.lang # "c++"
             THEN Raise(self, "Mixing '" \o self.lang \o "' with 'c++'.")
             ELSE ProcIntermediate(self, self.cxx, inp)
        ELSE IF ext = ".c"
        THEN IF self.lang = ""
             THEN ProcIntermediate([self EXCEPT !.lang = "c"], self.cc, inp)
             ELSE IF self.lang # "c" /\ self.lang # "c++"
             THEN Raise(self, "Mixing '" \o self.lang \o "' with 'c'.")
             ELSE ProcIntermediate(self, self.cc, inp)
        ELSE Raise(self, "Unrecognized extension: " \o ext)

\* One turn of `for inp in self.inputs` of the compilation stage
\* (lines 199-223).
CompileInput(self, inp) ==
    LET ext == Splitext(inp)
    IN  IF ext \in {".cc", ".cpp", ".cxx", ".c++"}
        THEN IF self.lang = "" \/ self.lang = "c"
             THEN ProcIntermediate([self EXCEPT !.lang = "c++"], self.cxx, inp)
             ELSE IF self.lang # "c++"
             THEN Raise(self, "Mixing '" \o self.lang \o "' with 'c++'.")
             ELSE ProcIntermediate(self, self.cxx, inp)
        ELSE IF ext = ".c"
        THEN IF self.lang = ""
             THEN ProcIntermediate([self EXCEPT !.lang = "c"], self.cc, inp)
             ELSE IF self.lang # "c" /\ self.lang # "c++"
             THEN Raise(self, "Mixing '" \o self.lang \o "' with 'c'.")
             ELSE ProcIntermediate(self, self.cc, inp)
        ELSE Raise(self, "Unrecognized extension: " \o ext)

RECURSIVE CompileInputs(_, _)
\* The loop; an exception ends it.
CompileInputs(self, inputs) ==
    IF inputs = <<>> \/ self.error # "" THEN self
    ELSE CompileInputs(CompileInput(self, Head(inputs)), Tail(inputs))

\* The rule of the final output with an unknown language taken for none.
LinkStageLenient(self, out) ==
    IF self.lang = "c++" THEN ProcLinkage(self, self.cxx, out)
    ELSE IF self.lang = "c" THEN ProcLinkage(self, self.cc, out)
    ELSE [self EXCEPT !.rules = DictSet(@, out, Rule({}, <<>>)),
                      !.phonys = @ \cup {out}]

\* Lines 225-239: the rule of the final output.
LinkStage(self, out) ==
    IF self.lang = ""
    THEN [self EXCEPT !.rules = DictSet(@, out, Rule({}, <<>>)),
                      !.phonys = @ \cup {out}]
    ELSE IF self.lang = "c++" THEN ProcLinkage(self, self.cxx, out)
    ELSE IF self.lang = "c" THEN ProcLinkage(self, self.cc, out)
    ELSE Raise(self, "Unrecognized language: " \o self.lang)

RECURSIVE HeaderInputs(_, _, _)
\* The loop of lines 174-181: acc holds `deps` and `cmds`.
HeaderInputs(inputs, out, acc) ==
    IF inputs = <<>> THEN acc
    ELSE LET inp == Head(inputs)
         IN  IF IsBracketed(inp)
             THEN HeaderInputs(Tail(inputs), out,
                      [acc EXCEPT !.cmds = Append(@,
                          << "echo >>" \o out \o " '#include " \o inp \o "'" >>)])
             ELSE HeaderInputs(Tail(inputs), out,
                      [deps |-> acc.deps \cup FindDepsCpp(inp),
                       cmds |-> Append(acc.cmds,
                          << "echo >>" \o out \o " '#include \"" \o inp \o "\"'" >>)])

\* Lines 169-191: a precompiled header; the artifact becomes `out`.
HeaderProject(self, out) ==
    LET agg == HeaderInputs(self.inputs, out,
                   [deps |-> {},
                    cmds |-> << <<"test", self.outdir, "&&", "mkdir", "-p", self.outdir>>,
                                <<"rm", "-f", out>> >>])
        out_pch  == out \o "$(PCHEXT)"
        compiler == IF self.lang = "c-header" THEN self.cc ELSE self.cxx
    IN  [self EXCEPT
            !.rules = DictSet(DictSet(@, out, Rule(agg.deps, agg.cmds)), out_pch,
                          Rule({out}, << compiler \o
                              <<"-o", "$@", "-x", self.lang, "-c", out>> >>)),
            !.outs = @ \cup {out, out_pch},
            !.out = out_pch]

\* No alias rule, whatever the name.
NoAlias(name, out) == FALSE

\* Line 242: whether the phony alias rule is needed.
NeedsAlias(name, out) == name # out

\* dict[key][1].extend(commands); a missing key raises KeyError.
ExtendCommands(self, key, commands) ==
    IF self.error # "" THEN self
    ELSE IF key \notin DOMAIN self.rules THEN Raise(self, "KeyError")
    ELSE [self EXCEPT !.rules[key].cmds = @ \o commands]

\* Lines 241-248: the alias rule, then the post-build and post-exec commands.
AliasAndPost(self) ==
    LET aliased == IF NeedsAlias(self.name, self.out)
                   THEN [self EXCEPT
                           !.rules = DictSet(@, self.name, Rule({self.out}, <<>>)),
                           !.phonys = @ \cup {self.name}]
                   ELSE self
    IN  ExtendCommands(ExtendCommands(aliased, self.out, self.postbuild),
                       self.name, self.postexec)

\* Project(name, *inputs, **arguments): the object when __init__ returns, or
\* when it raises (error is then the exception's message).
ProjectInit(name, inputs, arguments, shared) ==
    LET self == ProjectFields(name, inputs, arguments, shared)
        out  == self.outdir \o self.outname
        built == IF self.lang = "c-header" \/ self.lang = "c++-header"
                 THEN HeaderProject(self, out)
                 ELSE LET compiled == CompileInputs(self, self.inputs)
                      IN  IF compiled.error # "" THEN compiled
                          ELSE LinkStage([compiled EXCEPT !.out = out], out)
    IN  IF built.error # "" THEN built ELSE AliasAndPost(built)

\* The caller's list as the caller wrote it: extdeps = ["lib.a"].
DeclaredExtdeps == <<"lib.a">>

MaxExtdeps == 3

NoAttempt ==
    [called |-> FALSE, name |-> "", inputs |-> <<>>, arguments |-> EmptyDict,
     self |-> ProjectFields("", <<>>, EmptyDict, <<>>)]

\* p = Project(name, *inputs, **arguments).  An argument extdeps= passes the
\* caller's list `extlist`.  keep: whether the caller keeps the object in its
\* list of projects; an exception leaves the caller without an object.
NewProject(name, inputs, arguments, keep) ==
    LET self == ProjectInit(name, inputs, arguments, extlist)
    IN  /\ Len(self.extdeps) <= MaxExtdeps
        /\ extlist' = IF "extdeps" \in DOMAIN arguments THEN self.extdeps
                      ELSE extlist
        /\ cur' = [called |-> TRUE, name |-> name, inputs |-> inputs,
                   arguments |-> arguments, self |-> self]
        /\ projs' = IF keep /\ self.error = "" THEN Append(projs, self)
                    ELSE projs
        /\ UNCHANGED <<files, depVars, flagVars, mk, firstSeen>>

\* The caller drops the object (or the exception) of its last Project call.
ForgetProject ==
    /\ cur.called
    /\ cur' = NoAttempt
    /\ UNCHANGED <<files, depVars, flagVars, extlist, projs, mk, firstSeen>>

-----------------------------------------------------------------------------
(* Makefile *)

\* self.first_target: None is <<>>, a name is <<name>>.
None == <<>>

\* Python's truth value of first_target: None and "" are false.
Truthy(t) == t # None /\ t # <<"">>

\* Makefile(): no macros, rules or cleans given.
NewMakefile ==
    [rules        |-> EmptyDict,
     cleans       |-> {},
     phonys       |-> {"all", "build", "clean", "install", "test"},
     first_target |-> None]

\* dict.update(other)
DictUpdate(d, other) ==
    [k \in DOMAIN d \cup DOMAIN other |-> IF k \in DOMAIN other THEN other[k] ELSE d[k]]

RECURSIVE ImportEach(_, _)
\* The loop `for project in projects`.
ImportEach(m, projects) ==
    IF projects = <<>> THEN m
    ELSE LET project == Head(projects)
         IN  ImportEach([m EXCEPT !.rules  = DictUpdate(@, project.rules),
                                  !.cleans = @ \cup project.outs,
                                  !.phonys = @ \cup project.phonys],
                        Tail(projects))

\* Makefile.import_projects(*projects) on the Makefile m.
Imported(m, projects) ==
    ImportEach(IF ~Truthy(m.first_target) /\ projects # <<>>
               THEN [m EXCEPT !.first_target = <<projects[1].name>>]
               ELSE m,
               projects)

\* makefile.import_projects(*[projs[i] for i in picks])
ImportProjects(picks) ==
    LET projects == [i \in 1..Len(picks) |-> projs[picks[i]]]
    IN  /\ mk' = Imported(mk, projects)
        /\ firstSeen' = IF firstSeen = None /\ projects # <<>>
                        THEN <<projects[1].name>> ELSE firstSeen
        /\ UNCHANGED <<files, depVars, flagVars, extlist, cur, projs>>

-----------------------------------------------------------------------------
(* The specifications. *)

DepsIdle == dpc = "idle" /\ root = "" /\ queue = <<>> /\ deps = {}

FlagsIdle ==
    /\ toolchain = [c \in Compilers |-> "new"]
    /\ cache = EmptyDict
    /\ tmpfile = FALSE
    /\ last = NoCall

ProjIdle ==
    /\ extlist = DeclaredExtdeps
    /\ cur = NoAttempt
    /\ projs = <<>>
    /\ mk = NewMakefile
    /\ firstSeen = None

\* The sources the projects are built from.
ProjectFiles ==
    [f \in {"main.cpp", "a.c", "b.cpp", "h.h"} |->
        CASE f = "main.cpp" -> <<Line("system", "iostream"), Line("other", "")>>
          [] f = "a.c"      -> <<Line("local", "h.h"), Line("system", "stdio.h")>>
          [] f = "b.cpp"    -> <<Line("local", "h.h"), Line("local", "missing.h")>>
          [] f = "h.h"      -> <<Line("system", "stdio.h")>>]

\* --- the header dependency search, over every small file system ---

MaxLines == 2

DepPaths == {"a.c", "b.h", "c.h"}

DepLines ==
    {Line("local", "a.c"), Line("local", "b.h"), Line("local", "./c.h"),
     Line("system", "b.h")}

\* "a.c" and "b.h" are readable or not; "c.h" does not exist.
FileSystems ==
    UNION {[R -> SeqsUpTo(DepLines, MaxLines)] : R \in SUBSET {"a.c", "b.h"}}

InitDeps ==
    /\ files \in FileSystems
    /\ DepsIdle /\ FlagsIdle /\ ProjIdle

NextDeps ==
    \/ \E path \in DepPaths : FindDepsCall(path)
    \/ FindDepsIter
    \/ FindDepsReturn

SpecDeps == InitDeps /\ [][NextDeps]_vars /\ WF_vars(FindDepsIter) /\ WF_vars(FindDepsReturn)

\* --- the flag probe, on every machine ---

InitFlags ==
    /\ files = ProjectFiles
    /\ DepsIdle /\ ProjIdle
    /\ toolchain \in [Compilers -> Kinds]
    /\ cache = EmptyDict
    /\ tmpfile = FALSE
    /\ last = NoCall

\* A call is recorded in `last`; the call after it is the same
\* cxxflags_check call again, or any call once `last` is dropped.
NextFlags ==
    \/ /\ last.op = ""
       /\ \E c \in Compilers, fl \in FlagLists : CxxflagsCheck(c, fl)
    \/ /\ last.op = "cxxflags_check"
       /\ CxxflagsCheck(last.compiler, last.flags)
    \/ /\ last.op = ""
       /\ \E c \in Compilers, f \in FlagNames : TryCompileCall(c, f)
    \/ ForgetCall

SpecFlags == InitFlags /\ [][NextFlags]_vars

\* --- project construction ---

MaxInputs == 2

ProjNames == {"app", "a.c.o"}

InputLists ==
    SeqsUpTo({"a.c", "b.cpp", "x.txt"}, MaxInputs)
        \cup {<<"main.cpp">>, <<"<stdio.h>", "h.h">>}

DirArgs == {EmptyDict, [outdir |-> "", intdir |-> ""], [intdir |-> ""]}

LangArgs ==
    {EmptyDict} \cup
        {[lang |-> l] : l \in {"c", "c++", "c-header", "c++-header", "java"}}

ExtArgs ==
    {EmptyDict, [extdeps |-> "extlist"], [precompiled |-> "pch"],
     [extdeps |-> "extlist", precompiled |-> "pch"]}

\* The flags and commands the projects are given.
FlagArgs ==
    [cxxflags |-> <<"-std=c++11", "-O2">>, cflags |-> <<"-std=gnu99">>,
     linkflags |-> <<"-lm">>, postbuild |-> << <<"strip", "$@">> >>,
     postexec |-> << <<"echo", "done">> >>]

ProjArguments ==
    {d @@ l @@ e @@ f : d \in DirArgs, l \in LangArgs, e \in ExtArgs,
                        f \in {EmptyDict, FlagArgs}}

InitProj ==
    /\ files = ProjectFiles
    /\ DepsIdle /\ FlagsIdle /\ ProjIdle

\* One Project call after the other, each object dropped before the next.
NextProj ==
    \/ /\ ~cur.called
       /\ \E name \in ProjNames, inputs \in InputLists, arguments \in ProjArguments :
              NewProject(name, inputs, arguments, FALSE)
    \/ ForgetProject

SpecProj == InitProj /\ [][NextProj]_vars

\* --- a configure script: projects are built, kept and imported ---

MaxProjects == 2

MaxImported == 2

MakeNames == {"app", ""}

MakeInputs == {<<>>, <<"a.c">>, <<"b.cpp">>, <<"a.c", "x.txt">>}

MakeArguments == {EmptyDict, [lang |-> "java"]}

InitMake ==
    /\ files = ProjectFiles
    /\ DepsIdle /\ FlagsIdle /\ ProjIdle

NextMake ==
    \/ /\ Len(projs) < MaxProjects
       /\ \E name \in MakeNames, inputs \in MakeInputs, arguments \in MakeArguments :
              NewProject(name, inputs, arguments, TRUE)
    \/ \E picks \in SeqsUpTo(1..Len(projs), MaxImported) : ImportProjects(picks)

SpecMake == InitMake /\ [][NextMake]_vars

-----------------------------------------------------------------------------
(* The header dependency search: C1 *)

\* The local include edges of a path: none for a path that cannot be read.
LocalEdges(p) ==
    IF p \in DOMAIN files
    THEN {NormTable[files[p][i].name] :
              i \in {k \in 1..Len(files[p]) : files[p][k].kind = "local"}}
    ELSE {}

RECURSIVE Closure(_)
Closure(S) ==
    LET T == S \cup UNION {LocalEdges(p) : p \in S}
    IN  IF T = S THEN S ELSE Closure(T)

NoRepeats(q) == \A i, j \in 1..Len(q) : i # j => q[i] # q[j]

\* C1: _find_deps_cpp(path) always returns, on every file system, cyclic
\* ones and ones with unreadable files included; what it returns is exactly
\* the set of paths reachable from path over local include edges, path
\* itself included; no path is ever queued twice.
C1_FindDepsReachable ==
    /\ [](dpc = "done" => deps = Closure({root}))
    /\ [](NoRepeats(queue) /\ Range(queue) \subseteq deps)
    /\ (dpc = "loop" ~> dpc = "done")

\* C1 witness: a includes "b" and b includes "a"; the search from a ended
\* with {a, b}.
C1_CycleResolved ==
    /\ dpc = "done"
    /\ root = "a.c"
    /\ "a.c" \in DOMAIN files /\ "b.h" \in DOMAIN files
    /\ "b.h" \in LocalEdges("a.c") /\ "a.c" \in LocalEdges("b.h")
    /\ deps = {"a.c", "b.h"}

-----------------------------------------------------------------------------
(* The flag probe: C3, C7, C8 *)

IsCheck == last.op = "cxxflags_check"

\* try_compile answers True
CompilerAccepts(compiler, flag) ==
    /\ toolchain[compiler] \notin {"missing", "broken"}
    /\ Accepts(toolchain[compiler], flag)

RECURSIVE Flatten(_)
Flatten(ss) == IF ss = <<>> THEN <<>> ELSE Head(ss) \o Flatten(Tail(ss))

\* What C8 says one flag becomes: a list of one flag, or of none.
ClaimedResolution(compiler, flag) ==
    IF flag = "-std=c++11"
    THEN IF CompilerAccepts(compiler, "-std=c++11") THEN <<"-std=c++11">>
         ELSE IF CompilerAccepts(compiler, "-std=c++0x") THEN <<"-std=c++0x">>
         ELSE <<>>
    ELSE IF flag \in {"-ferror-limit=5"}
    THEN IF compiler # "clang++" THEN <<>> ELSE <<flag>>
    ELSE <<flag>>

\* The same, with the two flags the code treats otherwise: "-std=c++0x" is
\* kept only if the compiler accepts it, and an empty flag is dropped.
ActualResolution(compiler, flag) ==
    IF flag = "-std=c++0x"
    THEN IF CompilerAccepts(compiler, "-std=c++0x") THEN <<flag>> ELSE <<>>
    ELSE IF flag = "" THEN <<>>
    ELSE ClaimedResolution(compiler, flag)

\* C3: the second of two consecutive calls cxxflags_check(compiler,
\* ["-std=c++11"]), for a compiler that accepts the flag, returns
\* ["-std=c++11"] like the first and makes no try_compile call.
C3_SecondCallCached ==
    (/\ IsCheck /\ last.repeated
     /\ last.flags = <<"-std=c++11">>
     /\ CompilerAccepts(last.compiler, "-std=c++11"))
        => /\ last.result = <<"-std=c++11">>
           /\ last.before = <<"-std=c++11">>
           /\ last.probes = 0

\* C7: when try_compile returns, "~~" does not exist, and with the compiler
\* binary missing it returns False.
C7_TmpfileRemoved ==
    last.op = "try_compile" =>
        /\ ~last.left
        /\ (toolchain[last.compiler] = "missing" => ~last.ok)

\* C8 as claimed: cxxflags_check returns the flags resolved one by one, in
\* order, every flag other than "-std=c++11" and "-ferror-limit=..." being
\* returned unchanged, and a repeated call returns what the call before did.
C8_ResolutionAsClaimed ==
    IsCheck =>
        /\ last.result = Flatten([i \in 1..Len(last.flags) |->
                                    ClaimedResolution(last.compiler, last.flags[i])])
        /\ (last.repeated => last.result = last.before)

\* C8 amended: the same, except that "-std=c++0x" is returned only if the
\* compiler accepts it and an empty flag is dropped.
C8_Resolution ==
    IsCheck =>
        /\ last.result = Flatten([i \in 1..Len(last.flags) |->
                                    ActualResolution(last.compiler, last.flags[i])])
        /\ (last.repeated => last.result = last.before)

\* C8 witness: a repeated call on a compiler that knows only "-std=c++0x"
\* answers with the fallback, the other flag kept in its place.
C8_FallbackRepeated ==
    /\ IsCheck /\ last.repeated
    /\ last.flags = <<"-O2", "-std=c++11">>
    /\ toolchain[last.compiler] = "mid"
    /\ last.result = <<"-O2", "-std=c++0x">>

-----------------------------------------------------------------------------
(* Project construction: C2, C4, C9, C10 *)

Built == cur.called /\ cur.self.error = ""

Passed(key) == key \in DOMAIN cur.arguments

\* The exception of a language conflict.
IsConflict(message) ==
    \E l \in {"c", "c++", "c-header", "c++-header", "java"}, m \in {"c", "c++"} :
        message = "Mixing '" \o l \o "' with '" \o m \o "'."

MixedInputs == cur.called /\ cur.inputs = <<"a.c", "b.cpp">> /\ ~Passed("lang")

AppProject ==
    /\ cur.called
    /\ cur.name = "app"
    /\ cur.inputs = <<"main.cpp">>
    /\ DOMAIN cur.arguments \cap
           {"outdir", "outname", "intdir", "lang", "extdeps", "precompiled"} = {}

AppRules ==
    LET rules == cur.self.rules
    IN  /\ cur.self.error = ""
        /\ "$(INTDIR)main.cpp.o" \in DOMAIN rules
        /\ rules["$(INTDIR)main.cpp.o"].deps = {"main.cpp"}
        /\ "$(OUTDIR)app" \in DOMAIN rules
        /\ rules["$(OUTDIR)app"].deps = {"$(INTDIR)main.cpp.o"}

\* C4 as claimed: that project has the compile rule and the link rule, and
\* no alias rule: "app" is no key of its rules and no phony.
C4_AppWithoutAlias ==
    AppProject =>
        /\ AppRules
        /\ "app" \notin DOMAIN cur.self.rules
        /\ "app" \notin cur.self.phonys

\* C4 amended: that project has the compile rule, the link rule and the
\* alias rule app -> $(OUTDIR)app, whose commands are the postexec commands;
\* "app" is a phony, and there is no other rule.
C4_AppWithAlias ==
    AppProject =>
        /\ AppRules
        /\ DOMAIN cur.self.rules = {"$(INTDIR)main.cpp.o", "$(OUTDIR)app", "app"}
        /\ cur.self.rules["app"] =
               Rule({"$(OUTDIR)app"}, Get(cur.arguments, "postexec", <<>>))
        /\ cur.self.phonys = {"app"}

\* C4 witness: that project was built.
C4_AppBuilt == AppProject /\ Built

Linked == Built /\ cur.self.lang \in {"c", "c++"}

StdFlags == {"-std=c++11", "-std=c++0x", "-std=gnu99"}

IsNoStdFlag(f) == f \notin StdFlags

\* The rule of the final output: its prerequisites and its link command.
LinkRuleAsClaimed(self) ==
    LET rule     == self.rules[self.out]
        cmd      == rule.cmds[2]
        compiler == IF self.lang = "c++" THEN self.cxx ELSE self.cc
        head     == SelectSeq(compiler, IsNoStdFlag)
        n        == Cardinality(self.ints)
        objs     == SubSeq(cmd, Len(head) + 3, Len(head) + 2 + n)
    IN  /\ rule.deps = self.ints \cup Range(self.extdeps)
        /\ Len(cmd) = Len(head) + 2 + n + Len(self.linkflags)
        /\ SubSeq(cmd, 1, Len(head)) = head
        /\ cmd[Len(head) + 1] = "-o" /\ cmd[Len(head) + 2] = "$@"
        /\ Range(objs) = self.ints
        /\ \A i, j \in 1..n : i < j => StrLess(objs[i], objs[j])
        /\ SubSeq(cmd, Len(head) + 3 + n, Len(cmd)) = self.linkflags

\* The rule of an intermediate object is the compile rule of an input.
HasCompileRule(self, obj) ==
    /\ obj \in DOMAIN self.rules
    /\ \E k \in 1..Len(self.inputs) :
           LET inp == self.inputs[k]
               cmds == self.rules[obj].cmds
           IN  /\ obj = self.intdir \o inp \o ".o"
               /\ Len(cmds) >= 2
               /\ Len(cmds[2]) >= 4
               /\ SubSeq(cmds[2], Len(cmds[2]) - 3, Len(cmds[2]))
                      = <<"-o", "$@", "-c", inp>>

\* C9 as claimed: a project of language c or c++ has the link rule above,
\* and every intermediate object has a compile rule among its rules.
C9_LinkRuleAndObjects ==
    Linked =>
        /\ LinkRuleAsClaimed(cur.self)
        /\ \A obj \in cur.self.ints : HasCompileRule(cur.self, obj)

\* C9 amended: the same, for every intermediate object whose path is not
\* the path of the final output or the name of the project (the link rule
\* or the alias rule has then replaced its compile rule).
C9_LinkRule ==
    Linked =>
        /\ LinkRuleAsClaimed(cur.self)
        /\ \A obj \in cur.self.ints \ {cur.self.out, cur.self.name} :
               HasCompileRule(cur.self, obj)

\* C9 witness: a project with a "-std=" flag, link flags and two objects
\* that are declared in the other order, one of them twice.
C9_TwoObjectsLinked ==
    /\ Linked
    /\ cur.inputs = <<"b.cpp", "a.c", "b.cpp">> \/ cur.inputs = <<"b.cpp", "a.c">>
    /\ Passed("linkflags") /\ Passed("cxxflags") /\ Passed("extdeps")
    /\ Cardinality(cur.self.ints) = 2

\* The artifact of the project's own precompiled header.
OwnArtifact ==
    IF Passed("precompiled")
    THEN {"$(INTDIR)" \o cur.arguments.precompiled \o "$(PCHEXT)"}
    ELSE {}

\* The precompiled header artifacts that projects append to extdeps.
PchArtifacts == {"$(INTDIR)pch$(PCHEXT)"}

\* C10: a Project call leaves the caller's extdeps list as it was, and of
\* the precompiled header artifacts only the project's own is among the
\* prerequisites of its rules, never one appended by an earlier call.
C10_ExtdepsUntouched ==
    /\ extlist = DeclaredExtdeps
    /\ Built =>
          \A target \in DOMAIN cur.self.rules :
              cur.self.rules[target].deps \cap PchArtifacts \subseteq OwnArtifact

\* C10, the prerequisites alone.
C10_NoForeignArtifact ==
    Built =>
        \A target \in DOMAIN cur.self.rules :
            cur.self.rules[target].deps \cap PchArtifacts \subseteq OwnArtifact

-----------------------------------------------------------------------------
(* The Makefile: C5, C6 *)

\* C5: first_target is unset as long as no import_projects call had a
\* project, and from then on it is the name of the first project of the
\* earliest call that had one.
C5_FirstTargetSetOnce == mk.first_target = firstSeen

KnownLanguages == {"c", "c++", "c-header", "c++-header"}

IsFatal(message) ==
    \/ IsConflict(message)
    \/ \E e \in Exts : message = "Unrecognized extension: " \o e
    \/ message = "Unrecognized language: java"

\* C6: a Project call that raises leaves the caller without a project and
\* the Makefile as it was; a call with a language outside the four known
\* ones raises a fatal configuration error; only projects whose
\* construction succeeded are held and imported.
C6_FailedProjectNotMerged ==
    /\ [][(cur' # cur /\ cur'.self.error # "") => (mk' = mk /\ projs' = projs)]_vars
    /\ []((cur.called /\ Passed("lang") /\ cur.arguments.lang \notin KnownLanguages)
              => IsFatal(cur.self.error))
    /\ [](cur.called /\ cur.self.error # "" => IsFatal(cur.self.error))
    /\ [](\A i \in 1..Len(projs) : projs[i].error = "")

\* C6 witness: a call raised after a compile rule had been registered, with
\* a project already imported into the Makefile.
C6_RaisedAfterCompileRule ==
    /\ cur.called
    /\ cur.self.error = "Unrecognized extension: .txt"
    /\ cur.self.rules # EmptyDict
    /\ mk.rules # EmptyDict
    /\ projs # <<>>

=============================================================================
